---- MODULE Spec2Model ----
(***************************************************************************)
(* Trigger / telemetry gateway of src/main.py.                             *)
(*                                                                         *)
(* src/main.py holds two variants of the gateway one after the other:      *)
(*   "daily"    lines   1-446  boot trigger + daily 06:00 trigger,         *)
(*                             callback mqtt_callback                      *)
(*   "interval" lines 447-696  boot trigger + fixed-interval trigger with  *)
(*                             a polling wait, callback mqtt_cb            *)
(* Both share the globals latest, waiting_for_sensor, sensor_payload and   *)
(* the readings file.                                                      *)
(*                                                                         *)
(* Time is counted in units of 0.1 s (the period of the wait loop's        *)
(* time.sleep(0.1)); the clock advances through the time.sleep calls.      *)
(***************************************************************************)
EXTENDS Integers, Sequences, FiniteSets, TLC

(* ------------------------------------------------------------------ *)
(* Bounds of the model                                                  *)
(* ------------------------------------------------------------------ *)
\* last clock value of a run of the interval variant (0.1 s units)
MaxTime == 28
\* last clock value of a run of the daily variant (0.1 s units)
MaxTimeDaily == 60
\* number of inbound messages delivered in one run
MaxMsgs == 2
\* length of a local minute, scaled down from 600 units (60 s)
MinuteLen == 20
\* minutes of a local day, scaled down from 1440
MinutesPerDay == 3
\* the minute of the day standing for 06:00 (hour == 6 and minute == 0)
DailyMinute == 2
\* local-time offset, scaled down from TIMEZONE_OFFSET_SECONDS = 19800 s
TzOffset == 20
\* lines of a readings file handed to read_readings_by_state on its own
MaxLines == 3
\* largest limit handed to read_readings_by_state
MaxLimit == 2
\* registry calls made one after the other
MaxCalls == 3

(* ------------------------------------------------------------------ *)
(* Program constants                                                    *)
(* ------------------------------------------------------------------ *)
\* TRIGGER_INTERVAL and SENSOR_RESPONSE_TIMEOUT are read by the interval variant
\* (lines 671 and 676); the lines that set them are not part of src/main.py.
\* The interval between fixed-interval triggers, here 1.0 s
TRIGGER_INTERVAL == 10
\* how long the wait loop waits for the sensor, here 0.3 s
SENSOR_RESPONSE_TIMEOUT == 3
\* time.sleep(0.1) of the wait loop
PollSleep == 1
\* time.sleep(0.5) at the end of a tick of the interval variant
TickSleep == 5
\* time.sleep(1.0): before the boot trigger and at the end of a daily tick
DailySleep == 10

TOPIC_DATA == "Sensor_data"
TOPIC_CMD == "Sensor_cmd"
DefaultState == "Uttar Pradesh"
DefaultDevice == "sensor"
PrototypeDevice == "ESP32_sensor_001"

(* ------------------------------------------------------------------ *)
(* JSON values: None, a number, a non-numeric string; Nan is the float   *)
(* nan (float("nan"), or a value float() turns into nan)                 *)
(* ------------------------------------------------------------------ *)
None == [k |-> "none", v |-> 0]
Num(n) == [k |-> "num", v |-> n]
Str(s) == [k |-> "str", v |-> 0]
Nan == [k |-> "nan", v |-> 0]

\* Python truthiness, as used by the `or` chains of the callbacks
Truthy(x) == (x.k = "num" /\ x.v # 0) \/ x.k = "str" \/ x.k = "nan"

\* a or b
Or(a, b) == IF Truthy(a) THEN a ELSE b

\* float(x) succeeds
IsNumeric(x) == x.k \in {"num", "nan"}

\* float(x) is nan
IsNan(x) == x.k = "nan"

\* dict.get(key) with default None
Get(d, key) == IF key \in DOMAIN d THEN d[key] ELSE None

(* ------------------------------------------------------------------ *)
(* Score estimator.  Scores are in hundredths (round(w, 2) * 100),      *)
(* inputs are whole numbers.                                            *)
(* ------------------------------------------------------------------ *)
Abs(x) == IF x < 0 THEN -x ELSE x

\* n / d rounded to the nearest integer, d > 0
RoundDiv(n, d) == IF n >= 0 THEN (2 * n + d) \div (2 * d)
                            ELSE -((2 * (-n) + d) \div (2 * d))

\* if w < 0: w = 0.0 ; if w > 100: w = 100.0   (w scaled by `one`)
Clip100(w, one) == IF w < 0 THEN 0 ELSE IF w > 100 * one THEN 100 * one ELSE w

\* _clip(x, a, b)
Clip(x, a, b) == IF x < a THEN a ELSE IF x > b THEN b ELSE x

\* math.tanh(n / d) in millionths, for the arguments the model uses, d > 0
TanhTable(n, d) ==
    IF n = 0 THEN 0
    ELSE CASE 15 * n = d -> 66568
           [] 8 * n = d -> 124353
           [] 6 * n = d -> 165140
           [] 4 * n = d -> 244919
           [] 3 * n = d -> 321513
           [] n = d -> 761594
           [] n = 2 * d -> 964028
           [] n = 5 * d -> 999909
           [] n >= 10 * d -> 1000000

\* tanh is odd
TanhE6(n, d) == IF n < 0 THEN -TanhTable(-n, d) ELSE TanhTable(n, d)

\* model_coef.py is generated offline and is not part of the repository
USE_MODEL == FALSE
\* wqi_calc.py is part of the repository
HasWqiCalc == TRUE
\* coefficients of model_coef (hundredths), unused while USE_MODEL is FALSE
CoefB == 1000
CoefTds == 1
CoefPh == 200
CoefTurb == -50

\* float(b) + float(c_tds)*t + float(c_ph)*p + float(c_turbidity)*u, clipped, rounded
LinearModel(t, p, u) == Clip100(CoefB + CoefTds * t + CoefPh * p + CoefTurb * u, 100)

\* compute_wqi_from_minimal(tds, ph, turbidity)[0] with the default secondary
\* parameters; a value float() rejects is replaced by 0.0 / 7.0 / 0.0
compute_wqi_from_minimal(tds, ph, turbidity) ==
    LET t == IF IsNumeric(tds) THEN tds.v ELSE 0
        p == IF IsNumeric(ph) THEN ph.v ELSE 7
        u == IF IsNumeric(turbidity) THEN turbidity.v ELSE 0
        term_pH == (8000000 * Clip(3 - 2 * Abs(p - 7), 0, 3)) \div 3
        term_DO == (15000000 * Clip(8, 0, 12)) \div 12
        term_turb == -8 * TanhE6(u, 15)
        term_BOD == -10 * TanhE6(2, 6)
        term_COD == -10 * TanhE6(10, 40)
        term_nitrate == -6 * TanhE6(1, 6)
        term_phosphate == -6 * TanhE6(1, 8)
        term_fecal == -8 * TanhE6(10, 150)
        term_tds == -5 * TanhE6(t, 600)
        wqi == 12000000 + term_pH + term_DO + term_turb + term_BOD + term_COD
               + term_nitrate + term_phosphate + term_fecal + term_tds
    IN  RoundDiv(Clip100(wqi, 1000000), 10000)

\* a heuristic whose pH term is the distance from neutral: 50 - |p - 7|*2 - ...
Heuristic_ph_distance(t, p, u) ==
    LET wqi30 == 150000 - 6000 * Abs(p - 7) - 25 * t - 1600 * u
    IN  RoundDiv(Clip100(wqi30, 3000), 30)

\* 50 + (7 - |p - 7|)*2 - (t/600)*5 - (u/15)*8, clipped, rounded to 2 places
Heuristic(t, p, u) ==
    LET wqi30 == 150000 + 6000 * (7 - Abs(p - 7)) - 25 * t - 1600 * u
    IN  RoundDiv(Clip100(wqi30, 3000), 30)

\* the value of a score expression over float(tds), float(ph), float(turbidity):
\* w, or nan when an operand is nan (nan < 0 and nan > 100 are both false, so
\* the clamps and round() let it through)
FloatScore(tds, ph, turbidity, w) ==
    IF IsNan(tds) \/ IsNan(ph) \/ IsNan(turbidity) THEN Nan ELSE Num(w)

\* an estimator that asks compute_wqi_from_minimal before the linear model
predict_wqi_calc_first(use_model, has_calc, tds, ph, turbidity) ==
    IF ~(IsNumeric(tds) /\ IsNumeric(ph) /\ IsNumeric(turbidity)) THEN None
    ELSE IF has_calc
         THEN FloatScore(tds, ph, turbidity, compute_wqi_from_minimal(tds, ph, turbidity))
    ELSE IF use_model
         THEN FloatScore(tds, ph, turbidity, LinearModel(tds.v, ph.v, turbidity.v))
    ELSE FloatScore(tds, ph, turbidity, Heuristic(tds.v, ph.v, turbidity.v))

\* predict_wqi of the daily variant (lines 160-182) with USE_MODEL = use_model and
\* compute_wqi_from_minimal imported or not: None when a value is not numeric,
\* else the first tier that is available
predict_wqi_tiers(use_model, has_calc, tds, ph, turbidity) ==
    IF ~(IsNumeric(tds) /\ IsNumeric(ph) /\ IsNumeric(turbidity)) THEN None
    ELSE IF use_model
         THEN FloatScore(tds, ph, turbidity, LinearModel(tds.v, ph.v, turbidity.v))
    ELSE IF has_calc
         THEN FloatScore(tds, ph, turbidity, compute_wqi_from_minimal(tds, ph, turbidity))
    ELSE FloatScore(tds, ph, turbidity, Heuristic(tds.v, ph.v, turbidity.v))

\* predict_wqi as the repository imports it
predict_wqi(tds, ph, turbidity) ==
    predict_wqi_tiers(USE_MODEL, HasWqiCalc, tds, ph, turbidity)

\* model_predict_from_coef (lines 471-481)
model_predict_from_coef(tds, ph, turbidity) ==
    IF ~(IsNumeric(tds) /\ IsNumeric(ph) /\ IsNumeric(turbidity)) THEN None
    ELSE FloatScore(tds, ph, turbidity, LinearModel(tds.v, ph.v, turbidity.v))

\* predict_wqi of the interval variant (lines 483-508)
predict_wqi_b_tiers(use_model, has_calc, tds, ph, turbidity) ==
    IF use_model /\ model_predict_from_coef(tds, ph, turbidity) # None
    THEN model_predict_from_coef(tds, ph, turbidity)
    ELSE IF has_calc
         THEN FloatScore(tds, ph, turbidity, compute_wqi_from_minimal(tds, ph, turbidity))
    ELSE IF IsNumeric(tds) /\ IsNumeric(ph) /\ IsNumeric(turbidity)
         THEN FloatScore(tds, ph, turbidity, Heuristic(tds.v, ph.v, turbidity.v))
         ELSE None

\* the second predict_wqi as the repository imports it
predict_wqi_b(tds, ph, turbidity) ==
    predict_wqi_b_tiers(USE_MODEL, HasWqiCalc, tds, ph, turbidity)

(* ------------------------------------------------------------------ *)
(* Inbound messages                                                     *)
(* ------------------------------------------------------------------ *)
\* body: "object" a JSON object, "array" valid JSON that is no object,
\*       "garbage" text json.loads rejects
\* device: the "device" member, "" when the member is absent
\* rd: "dict" the "readings" member is an object, "absent" there is none
Msg(topic, body, device, rd, readings) ==
    [topic |-> topic, body |-> body, device |-> device, rd |-> rd,
     readings |-> readings]

NoReadings == [key \in {} |-> None]
NoMsg == Msg("", "none", "", "absent", NoReadings)

GoodMsg == Msg(TOPIC_DATA, "object", PrototypeDevice, "dict",
               ("tds_ppm" :> Num(600)) @@ ("ph" :> Num(7)) @@ ("turbidity_pct" :> Num(15)))
\* an object without device and without readings
BareMsg == Msg(TOPIC_DATA, "object", "", "absent", NoReadings)
\* an object whose readings hold none of the measurement keys
NoFieldsMsg == Msg(TOPIC_DATA, "object", PrototypeDevice, "dict", ("temp" :> Num(21)))
BadJsonMsg == Msg(TOPIC_DATA, "garbage", "", "absent", NoReadings)
ArrayMsg == Msg(TOPIC_DATA, "array", "", "absent", NoReadings)
OtherTopicMsg == Msg("Sensor_other", "object", PrototypeDevice, "dict",
                     ("tds" :> Num(0)) @@ ("ph" :> Num(7)) @@ ("turbidity" :> Num(0)))

Msgs == {GoodMsg, BareMsg, NoFieldsMsg, BadJsonMsg, ArrayMsg, OtherTopicMsg}

\* a parser that lets every body through
JsonNeverFails(m) == FALSE

\* json.loads(msg) raises
JsonFails(m) == m.body = "garbage"

\* j.get(...) raises AttributeError: j is no dict
GetFails(m) == m.body = "array"

\* j.get("device", "sensor")
DeviceOf(m) == IF m.device = "" THEN DefaultDevice ELSE m.device

\* the measurement lookups of mqtt_callback (lines 198-200)
TdsA(rd) == Or(Or(Get(rd, "tds_ppm"), Get(rd, "tds")), Get(rd, "tds_mg_L"))
TurbA(rd) == Or(Or(Get(rd, "turbidity_pct"), Get(rd, "turbidity")), Get(rd, "turbidity_NTU"))

\* the measurement lookups of mqtt_cb (lines 549-551)
TdsB(rd) == Or(Or(Or(Get(rd, "tds_ppm"), Get(rd, "tds")), Get(rd, "tds_ppm")), Get(rd, "tds_ppm"))
TurbB(rd) == Or(Get(rd, "turbidity_pct"), Get(rd, "turbidity"))

(* ------------------------------------------------------------------ *)
(* Device registry (device_map.json): device id -> state tag            *)
(* ------------------------------------------------------------------ *)
EmptyMap == [d \in {} |-> ""]

\* load_device_map(): {} when the file cannot be read
load_device_map(file, loadOk) == IF loadOk THEN file ELSE EmptyMap

\* a registry kept in memory, which shows the entry although the save failed
ensure_default_device_mapping_kept(file, device_id, default_state, loadOk, saveOk) ==
    LET dmap == load_device_map(file, loadOk)
    IN  IF device_id \in DOMAIN dmap THEN file
        ELSE (device_id :> default_state) @@ dmap

\* the file after ensure_default_device_mapping(device_id, default_state)
ensure_default_device_mapping(file, device_id, default_state, loadOk, saveOk) ==
    LET dmap == load_device_map(file, loadOk)
    IN  IF device_id \in DOMAIN dmap THEN file
        ELSE IF saveOk THEN (device_id :> default_state) @@ dmap
        ELSE file

\* get_device_info(device_id).get("state"), "" when there is none
get_device_state(file, device_id, loadOk) ==
    LET d == load_device_map(file, loadOk)
    IN  IF device_id \in DOMAIN d THEN d[device_id] ELSE ""

(* ------------------------------------------------------------------ *)
(* Readings                                                             *)
(* ------------------------------------------------------------------ *)
\* int(time.time()): whole seconds
Seconds(t) == t \div 10

NoRec == [ts |-> -1, device |-> "", tds |-> None, ph |-> None, turbidity |-> None,
          wqi |-> None, state |-> "", raw |-> NoReadings]

\* rec of mqtt_callback (lines 209-218); raw is the readings object
RecA(m, t, state_v) ==
    [ts |-> Seconds(t), device |-> DeviceOf(m), tds |-> TdsA(m.readings),
     ph |-> Get(m.readings, "ph"), turbidity |-> TurbA(m.readings),
     wqi |-> predict_wqi(TdsA(m.readings), Get(m.readings, "ph"), TurbA(m.readings)),
     state |-> state_v, raw |-> m.readings]

\* rec of mqtt_cb (lines 553-560): no state and no raw member
RecB(m, t) ==
    [ts |-> Seconds(t), device |-> DeviceOf(m), tds |-> TdsB(m.readings),
     ph |-> Get(m.readings, "ph"), turbidity |-> TurbB(m.readings),
     wqi |-> predict_wqi_b(TdsB(m.readings), Get(m.readings, "ph"), TurbB(m.readings)),
     state |-> "", raw |-> NoReadings]

(* ------------------------------------------------------------------ *)
(* State                                                                *)
(* ------------------------------------------------------------------ *)
VARIABLES
    variant,              \* "daily" or "interval": which main() runs
    pc,                   \* position of the trigger/telemetry loop
    ret,                  \* where the loop continues after the callback
    clock,                \* time.time(), in 0.1 s
    link,                 \* the MQTT client is connected
    latest,               \* global latest
    waiting_for_sensor,   \* global waiting_for_sensor
    sensor_payload,       \* global sensor_payload (NoMsg for None)
    log,                  \* water_readings.jsonl, one record per line
    device_map,           \* device_map.json
    last_trigger,         \* local last_trigger of main (interval variant)
    now,                  \* local now of main (interval variant)
    wait_until,           \* local wait_until of main (interval variant)
    last_daily_trigger_date,  \* local of main (daily variant), -1 for None
    cb_msg,               \* the message the callback is processing (j)
    pubs,                 \* history: the trigger commands the broker got
    delivered,            \* history: number of messages handed to the callback
    rx,                   \* history: the last message handed to the callback
    timeouts,             \* history: "No sensor response within timeout" reports
    cycle,                \* history: the current or last armed wait
    pub_failed,           \* history: the trigger whose publish failed in the last
                          \*          scheduling step, "" when there is none
    lock,                 \* global lock: "free", or the thread that acquired it
    os_path,              \* the firmware's os module has a path submodule
    hpc,                  \* position of the HTTP thread (serve_forever)
    hreq,                 \* the request the HTTP thread is handling
    hres,                 \* the body the HTTP thread is building (results, payload)
    arg,                  \* the arguments of the function under study
    res                   \* its result

vars == <<variant, pc, ret, clock, link, latest, waiting_for_sensor, sensor_payload,
          log, device_map, last_trigger, now, wait_until, last_daily_trigger_date,
          cb_msg, pubs, delivered, rx, timeouts, cycle, pub_failed,
          lock, os_path, hpc, hreq, hres, arg, res>>

\* the globals the callback owns
cbVars == <<latest, waiting_for_sensor, sensor_payload, log, device_map, cb_msg,
            delivered, rx>>
\* the lock and the HTTP thread
httpVars == <<lock, os_path, hpc, hreq, hres>>
\* a function call studied on its own
callVars == <<arg, res>>
\* the locals of main
mainVars == <<last_trigger, now, wait_until, last_daily_trigger_date>>

NoDate == -1
\* the arguments state and limit; given = FALSE stands for None
NoArg == [given |-> FALSE, s |-> "", n |-> 0]
StateArg(str) == [given |-> TRUE, s |-> str, n |-> 0]
LimitArg(n) == [given |-> TRUE, s |-> "", n |-> n]

\* no request is being handled
NoReq == [path |-> "", state |-> NoArg, limit |-> NoArg]
NoRx == [msg |-> NoMsg, armed |-> FALSE, saved |-> FALSE]
NoCycle == [open |-> FALSE, len0 |-> 0, data |-> 0, ended |-> FALSE, reported |-> FALSE]

\* local_time_tuple(): the clock plus the fixed offset
LocalTime(t) == t + TzOffset
\* (lt[0], lt[1], lt[2]): the local calendar date
LocalDate(t) == LocalTime(t) \div (MinuteLen * MinutesPerDay)
\* lt[3], lt[4]: the local minute of the day
LocalMinute(t) == (LocalTime(t) \div MinuteLen) % MinutesPerDay

(* ------------------------------------------------------------------ *)
(* Storage and transport helpers                                        *)
(* ------------------------------------------------------------------ *)
\* a save_reading that puts the newest record first
save_reading_first(file, rec, ok) == IF ok THEN <<rec>> \o file ELSE file

\* save_reading(rec) (lines 119-130): the file after the call; ok is whether
\* open/write succeeded
save_reading(file, rec, ok) == IF ok THEN Append(file, rec) ELSE file

\* a save_record that loses the record although the write is reported done
save_record_lost(file, rec, ok) == file

\* save_record(rec) (lines 511-516)
save_record(file, rec, ok) == IF ok THEN Append(file, rec) ELSE file

\* the commands the broker holds after publish_trigger(): client.publish
\* succeeded (ok) or raised
publish_trigger(sent, ok, kind) ==
    IF ok THEN Append(sent, [t |-> clock, kind |-> kind, armed |-> waiting_for_sensor])
          ELSE sent

\* a callback that clears the flag although nothing was waiting for it keeps it
waiting_after_stuck(w) == w

\* waiting_for_sensor after `if waiting_for_sensor: waiting_for_sensor = False`
waiting_after(w) == IF w THEN FALSE ELSE w

\* a callback that stores the payload without looking at the flag
payload_after_unguarded(w, old, j) == j

\* sensor_payload after `if waiting_for_sensor: sensor_payload = j`
payload_after(w, old, j) == IF w THEN j ELSE old

\* a deadline taken from the trigger interval instead of the response timeout
deadline_after_interval(t) == t + TRIGGER_INTERVAL

\* wait_until = time.time() + SENSOR_RESPONSE_TIMEOUT
deadline_after(t) == t + SENSOR_RESPONSE_TIMEOUT

\* a wait loop that looks at the flag alone
wait_continues_no_deadline == waiting_for_sensor

\* the condition of the wait loop: `waiting_for_sensor and time.time() < wait_until`
wait_continues == waiting_for_sensor /\ clock < wait_until

\* a loop that reconnects after every failed poll, the wait loop included
after_poll_error_reconnects(at) == IF at = "a_poll" THEN "a_reconnect" ELSE "reconnect"

\* where the loop goes when client.check_msg() raised: the main loops call
\* mqtt_connect() (lines 413-415, 663-665), the wait loop passes (lines 680-681)
after_poll_error(at) ==
    CASE at = "poll" -> "reconnect"
      [] at = "a_poll" -> "a_reconnect"
      [] at = "wait" -> "waitsleep"

\* a schedule that fires again right after a publish that failed
trigger_due_or_retry == clock - last_trigger >= TRIGGER_INTERVAL \/ pub_failed # ""

\* `now - last_trigger >= TRIGGER_INTERVAL`
trigger_due == clock - last_trigger >= TRIGGER_INTERVAL

\* globals(): the names bound at module level in the daily variant (lines 4-445);
\* last_daily_trigger_date is assigned only inside main without a global
\* statement, so it is a local of main
Globals == {"lock", "client", "latest", "waiting_for_sensor", "sensor_payload",
            "USE_MODEL", "compute_wqi_from_minimal", "now_utc_ts", "local_time_tuple",
            "local_date_tuple", "sync_time_with_ntp", "load_device_map",
            "save_device_map", "get_device_info", "ensure_default_device_mapping",
            "save_reading", "read_readings_by_state", "predict_wqi", "mqtt_callback",
            "mqtt_connect", "publish_trigger", "serve_forever", "connect_wifi", "main"}

\* `'last_daily_trigger_date' not in globals() or last_daily_trigger_date != today`
daily_guard(today) ==
    "last_daily_trigger_date" \notin Globals \/ last_daily_trigger_date # today

\* main, lines 362-375: `synced = sync_time_with_ntp = False` makes
\* sync_time_with_ntp a local of main holding False, and line 375 calls it
\* when the name is a global: TypeError, caught nowhere
ntp_call_raises == "sync_time_with_ntp" \in Globals

\* a data-topic message counts for the armed wait
CountData(m) == IF cycle.open /\ m.topic = TOPIC_DATA
                THEN [cycle EXCEPT !.data = @ + 1] ELSE cycle

(* ------------------------------------------------------------------ *)
(* The callbacks, up to and including the append                        *)
(* ------------------------------------------------------------------ *)
Rx(m, saved) == [msg |-> m, armed |-> waiting_for_sensor, saved |-> saved]

\* mqtt_cb(topic, msg), lines 540-567
mqtt_cb(m, saveOk, cont) ==
    /\ delivered' = delivered + 1
    /\ cycle' = CountData(m)
    /\ IF m.topic # TOPIC_DATA \/ JsonFails(m) \/ GetFails(m)
       THEN /\ rx' = Rx(m, FALSE)
            /\ pc' = cont
            /\ UNCHANGED <<latest, log, cb_msg, ret>>
       ELSE /\ rx' = Rx(m, saveOk)
            /\ latest' = RecB(m, clock)
            /\ log' = save_record(log, RecB(m, clock), saveOk)
            /\ cb_msg' = m
            /\ ret' = cont
            /\ pc' = "cb"
    /\ UNCHANGED <<waiting_for_sensor, sensor_payload, device_map>>

\* mqtt_callback(topic, msg), lines 185-221
mqtt_callback(m, loadOk, mapSaveOk, saveOk, cont) ==
    /\ delivered' = delivered + 1
    /\ cycle' = CountData(m)
    /\ IF m.topic # TOPIC_DATA \/ JsonFails(m) \/ GetFails(m)
       THEN /\ rx' = Rx(m, FALSE)
            /\ pc' = cont
            /\ UNCHANGED <<latest, log, cb_msg, ret, device_map>>
       ELSE LET file == ensure_default_device_mapping(device_map, DeviceOf(m),
                                                      DefaultState, loadOk, mapSaveOk)
                st == get_device_state(file, DeviceOf(m), loadOk)
                state_v == IF st = "" THEN DefaultState ELSE st
                rec == RecA(m, clock, state_v)
            IN  /\ rx' = Rx(m, saveOk)
                /\ device_map' = file
                /\ latest' = rec
                /\ log' = save_reading(log, rec, saveOk)
                /\ cb_msg' = m
                /\ ret' = cont
                /\ pc' = "cb"
    /\ UNCHANGED <<waiting_for_sensor, sensor_payload>>

\* the end of both callbacks (lines 222-224, 568-570):
\*   if waiting_for_sensor: sensor_payload = j; waiting_for_sensor = False
CbRelease ==
    /\ pc = "cb"
    /\ pc' = ret
    /\ ret' = ""
    /\ cb_msg' = NoMsg
    /\ sensor_payload' = payload_after(waiting_for_sensor, sensor_payload, cb_msg)
    /\ waiting_for_sensor' = waiting_after(waiting_for_sensor)
    /\ UNCHANGED <<variant, clock, link, latest, log, device_map, mainVars, pubs,
                   delivered, rx, timeouts, cycle>>
    /\ UNCHANGED pub_failed
    /\ UNCHANGED <<httpVars, callVars>>

(* ------------------------------------------------------------------ *)
(* Interval variant: main, lines 636-692                                *)
(* ------------------------------------------------------------------ *)
\* lines 637-648: connect_wifi, mqtt_connect (may fail), HTTP thread
B_Start ==
    /\ variant = "interval" /\ pc = "start"
    /\ link' \in BOOLEAN
    /\ pc' = "boot"
    /\ UNCHANGED <<variant, ret, clock, cbVars, mainVars, pubs, timeouts, cycle>>
    /\ UNCHANGED pub_failed
    /\ UNCHANGED <<httpVars, callVars>>

\* lines 650-656: trigger once at startup; last_trigger = time.time()
B_Boot ==
    /\ variant = "interval" /\ pc = "boot"
    /\ \E ok \in BOOLEAN :
          /\ ok => link
          /\ pubs' = publish_trigger(pubs, ok, "boot")
          /\ link' = ok
          /\ pub_failed' = IF ok THEN "" ELSE "boot"
    /\ last_trigger' = clock
    /\ pc' = "poll"
    /\ UNCHANGED <<variant, ret, clock, cbVars, now, wait_until,
                   last_daily_trigger_date, timeouts, cycle>>
    /\ UNCHANGED <<httpVars, callVars>>

\* lines 660-663: client.check_msg(): nothing pending, a message, or an error
B_Poll ==
    /\ variant = "interval" /\ pc = "poll"
    /\ \/ /\ link
          /\ pc' = "sched"
          /\ UNCHANGED <<link, ret, cbVars, cycle>>
       \/ /\ link /\ delivered < MaxMsgs
          /\ \E m \in Msgs, saveOk \in BOOLEAN : mqtt_cb(m, saveOk, "sched")
          /\ UNCHANGED link
       \/ /\ link' = FALSE
          /\ pc' = after_poll_error("poll")
          /\ UNCHANGED <<ret, cbVars, cycle>>
    /\ UNCHANGED <<variant, clock, mainVars, pubs, timeouts>>
    /\ UNCHANGED pub_failed
    /\ UNCHANGED <<httpVars, callVars>>

\* lines 664-667: mqtt_connect() after the failed poll; its error is passed over
B_Reconnect ==
    /\ variant = "interval" /\ pc = "reconnect"
    /\ link' \in BOOLEAN
    /\ pc' = "sched"
    /\ UNCHANGED <<variant, ret, clock, cbVars, mainVars, pubs, timeouts, cycle>>
    /\ UNCHANGED pub_failed
    /\ UNCHANGED <<httpVars, callVars>>

\* lines 670-671, the interval has not elapsed
B_NotDue ==
    /\ variant = "interval" /\ pc = "sched"
    /\ now' = clock
    /\ ~trigger_due
    /\ pc' = "sleep"
    /\ UNCHANGED <<variant, ret, clock, link, cbVars, last_trigger, wait_until,
                   last_daily_trigger_date, pubs, timeouts, cycle>>
    /\ pub_failed' = ""
    /\ UNCHANGED <<httpVars, callVars>>

\* lines 670-676: arm, publish, set the deadline
B_Fire ==
    /\ variant = "interval" /\ pc = "sched"
    /\ now' = clock
    /\ trigger_due
    /\ waiting_for_sensor' = TRUE
    /\ sensor_payload' = NoMsg
    /\ \E ok \in BOOLEAN :
          /\ ok => link
          /\ pubs' = publish_trigger(pubs, ok, "interval")
          /\ link' = ok
          /\ pub_failed' = IF ok THEN "" ELSE "interval"
    /\ wait_until' = deadline_after(clock)
    /\ cycle' = [open |-> TRUE, len0 |-> Len(log), data |-> 0, ended |-> FALSE,
                 reported |-> FALSE]
    /\ pc' = "wait"
    /\ UNCHANGED <<variant, ret, clock, latest, log, device_map, cb_msg, delivered, rx,
                   last_trigger, last_daily_trigger_date, timeouts>>
    /\ UNCHANGED <<httpVars, callVars>>

\* lines 677-681: one poll of the wait loop; an error of check_msg is passed over
B_WaitPoll ==
    /\ variant = "interval" /\ pc = "wait"
    /\ wait_continues
    /\ \/ /\ link
          /\ pc' = "waitsleep"
          /\ UNCHANGED <<link, ret, cbVars, cycle>>
       \/ /\ link /\ delivered < MaxMsgs
          /\ \E m \in Msgs, saveOk \in BOOLEAN : mqtt_cb(m, saveOk, "waitsleep")
          /\ UNCHANGED link
       \/ /\ link' = FALSE
          /\ pc' = after_poll_error("wait")
          /\ UNCHANGED <<ret, cbVars, cycle>>
    /\ UNCHANGED <<variant, clock, mainVars, pubs, timeouts>>
    /\ UNCHANGED pub_failed
    /\ UNCHANGED <<httpVars, callVars>>

\* line 682: time.sleep(0.1)
B_WaitSleep ==
    /\ variant = "interval" /\ pc = "waitsleep"
    /\ clock' = clock + PollSleep
    /\ pc' = "wait"
    /\ UNCHANGED <<variant, ret, link, cbVars, mainVars, pubs, timeouts, cycle>>
    /\ UNCHANGED pub_failed
    /\ UNCHANGED <<httpVars, callVars>>

\* lines 677, 683-685: the wait is over; report a timeout; last_trigger = now
B_WaitExit ==
    /\ variant = "interval" /\ pc = "wait"
    /\ ~wait_continues
    /\ timeouts' = IF sensor_payload = NoMsg THEN timeouts + 1 ELSE timeouts
    /\ cycle' = [cycle EXCEPT !.open = FALSE, !.ended = TRUE,
                              !.reported = (sensor_payload = NoMsg)]
    /\ last_trigger' = now
    /\ pc' = "sleep"
    /\ UNCHANGED <<variant, ret, clock, link, cbVars, now, wait_until,
                   last_daily_trigger_date, pubs>>
    /\ UNCHANGED pub_failed
    /\ UNCHANGED <<httpVars, callVars>>

\* line 687: time.sleep(0.5); the run ends where a further wait would pass MaxTime
B_Sleep ==
    /\ variant = "interval" /\ pc = "sleep"
    /\ clock + TickSleep + SENSOR_RESPONSE_TIMEOUT <= MaxTime
    /\ clock' = clock + TickSleep
    /\ pc' = "poll"
    /\ UNCHANGED <<variant, ret, link, cbVars, mainVars, pubs, timeouts, cycle>>
    /\ UNCHANGED pub_failed
    /\ UNCHANGED <<httpVars, callVars>>

\* lines 688-689 and 439-440: KeyboardInterrupt ends the loop
Interrupt ==
    /\ pc \in {"sleep", "a_sleep"}
    /\ pc' = "stopped"
    /\ UNCHANGED <<variant, ret, clock, link, cbVars, mainVars, pubs, timeouts, cycle>>
    /\ UNCHANGED pub_failed
    /\ UNCHANGED <<httpVars, callVars>>

(* ------------------------------------------------------------------ *)
(* Daily variant: main, lines 359-443                                   *)
(* ------------------------------------------------------------------ *)
\* lines 360-375: connect_wifi, then the NTP sync lines
A_Start ==
    /\ variant = "daily" /\ pc = "start"
    /\ pc' = IF ntp_call_raises THEN "crashed" ELSE "a_connect"
    /\ UNCHANGED <<variant, ret, clock, link, cbVars, mainVars, pubs, timeouts, cycle>>
    /\ UNCHANGED pub_failed
    /\ UNCHANGED <<httpVars, callVars>>

\* lines 377-387: mqtt_connect (may fail), HTTP thread
A_Connect ==
    /\ variant = "daily" /\ pc = "a_connect"
    /\ link' \in BOOLEAN
    /\ pc' = "a_ensure"
    /\ UNCHANGED <<variant, ret, clock, cbVars, mainVars, pubs, timeouts, cycle>>
    /\ UNCHANGED pub_failed
    /\ UNCHANGED <<httpVars, callVars>>

\* line 390: ensure_default_device_mapping("ESP32_sensor_001", "Uttar Pradesh")
A_Ensure ==
    /\ variant = "daily" /\ pc = "a_ensure"
    /\ \E loadOk \in BOOLEAN, saveOk \in BOOLEAN :
          device_map' = ensure_default_device_mapping(device_map, PrototypeDevice,
                                                      DefaultState, loadOk, saveOk)
    /\ pc' = "a_boot"
    /\ UNCHANGED <<variant, ret, clock, link, latest, waiting_for_sensor, sensor_payload,
                   log, cb_msg, delivered, rx, mainVars, pubs, timeouts, cycle>>
    /\ UNCHANGED pub_failed
    /\ UNCHANGED <<httpVars, callVars>>

\* lines 392-405: time.sleep(1.0); boot trigger; last_daily_trigger_date
A_Boot ==
    /\ variant = "daily" /\ pc = "a_boot"
    /\ clock' = clock + DailySleep
    /\ \E ok \in BOOLEAN :
          /\ ok => link
          /\ pubs' = IF ok THEN Append(pubs, [t |-> clock', kind |-> "boot",
                                              armed |-> waiting_for_sensor])
                           ELSE pubs
          /\ link' = ok
          /\ pub_failed' = IF ok THEN "" ELSE "boot"
          /\ last_daily_trigger_date' = IF ok THEN LocalDate(clock') ELSE NoDate
    /\ pc' = "a_poll"
    /\ UNCHANGED <<variant, ret, cbVars, last_trigger, now, wait_until, timeouts, cycle>>
    /\ UNCHANGED <<httpVars, callVars>>

\* lines 410-413: client.check_msg(): nothing pending, a message, or an error
A_Poll ==
    /\ variant = "daily" /\ pc = "a_poll"
    /\ \/ /\ link
          /\ pc' = "a_daily"
          /\ UNCHANGED <<link, ret, cbVars, cycle>>
       \/ /\ link /\ delivered < MaxMsgs
          /\ \E m \in Msgs, loadOk \in BOOLEAN, mapSaveOk \in BOOLEAN, saveOk \in BOOLEAN :
                mqtt_callback(m, loadOk, mapSaveOk, saveOk, "a_daily")
          /\ UNCHANGED link
       \/ /\ link' = FALSE
          /\ pc' = after_poll_error("a_poll")
          /\ UNCHANGED <<ret, cbVars, cycle>>
    /\ UNCHANGED <<variant, clock, mainVars, pubs, timeouts>>
    /\ UNCHANGED pub_failed
    /\ UNCHANGED <<httpVars, callVars>>

\* lines 414-417: mqtt_connect() after the failed poll; its error is passed over
A_Reconnect ==
    /\ variant = "daily" /\ pc = "a_reconnect"
    /\ link' \in BOOLEAN
    /\ pc' = "a_daily"
    /\ UNCHANGED <<variant, ret, clock, cbVars, mainVars, pubs, timeouts, cycle>>
    /\ UNCHANGED pub_failed
    /\ UNCHANGED <<httpVars, callVars>>

\* lines 419-436, the local time is 06:00 and the guard lets the trigger through
A_Daily ==
    /\ variant = "daily" /\ pc = "a_daily"
    /\ LocalMinute(clock) = DailyMinute
    /\ daily_guard(LocalDate(clock))
    /\ \E ok \in BOOLEAN :
          /\ ok => link
          /\ pubs' = publish_trigger(pubs, ok, "daily")
          /\ link' = ok
          /\ pub_failed' = IF ok THEN "" ELSE "daily"
          /\ last_daily_trigger_date' =
                IF ok THEN LocalDate(clock) ELSE last_daily_trigger_date
    /\ pc' = "a_sleep"
    /\ UNCHANGED <<variant, ret, clock, cbVars, last_trigger, now, wait_until,
                   timeouts, cycle>>
    /\ UNCHANGED <<httpVars, callVars>>

\* lines 419-436, another minute, or the guard holds the trigger back
A_NoDaily ==
    /\ variant = "daily" /\ pc = "a_daily"
    /\ ~(LocalMinute(clock) = DailyMinute /\ daily_guard(LocalDate(clock)))
    /\ pc' = "a_sleep"
    /\ UNCHANGED <<variant, ret, clock, link, cbVars, mainVars, pubs, timeouts, cycle>>
    /\ pub_failed' = ""
    /\ UNCHANGED <<httpVars, callVars>>

\* line 438: time.sleep(1.0)
A_Sleep ==
    /\ variant = "daily" /\ pc = "a_sleep"
    /\ clock + DailySleep <= MaxTimeDaily
    /\ clock' = clock + DailySleep
    /\ pc' = "a_poll"
    /\ UNCHANGED <<variant, ret, link, cbVars, mainVars, pubs, timeouts, cycle>>
    /\ UNCHANGED pub_failed
    /\ UNCHANGED <<httpVars, callVars>>

(* ------------------------------------------------------------------ *)
(* Specifications                                                       *)
(* ------------------------------------------------------------------ *)
\* device_map.json before the program starts: none, or an entry set by hand
InitialMaps == {EmptyMap, (PrototypeDevice :> "Kerala")}

InitCommon ==
    /\ ret = ""
    /\ clock = 0
    /\ link = FALSE
    /\ latest = NoRec
    /\ waiting_for_sensor = FALSE
    /\ sensor_payload = NoMsg
    /\ log = <<>>
    /\ device_map \in InitialMaps
    /\ last_trigger = 0
    /\ now = 0
    /\ wait_until = 0
    /\ last_daily_trigger_date = NoDate
    /\ cb_msg = NoMsg
    /\ pubs = <<>>
    /\ delivered = 0
    /\ rx = NoRx
    /\ timeouts = 0
    /\ cycle = NoCycle
    /\ pub_failed = ""
    /\ lock = "free"
    /\ os_path = TRUE
    /\ hpc = "h_off"
    /\ hreq = NoReq
    /\ hres = <<>>
    /\ arg = <<>>
    /\ res = <<>>

\* main() of either variant, from its first line
Init ==
    /\ variant \in {"daily", "interval"}
    /\ pc = "start"
    /\ InitCommon

Next ==
    \/ A_Start
    \/ B_Start \/ B_Boot \/ B_Poll \/ B_Reconnect \/ B_NotDue \/ B_Fire
    \/ B_WaitPoll \/ B_WaitSleep \/ B_WaitExit \/ B_Sleep
    \/ CbRelease \/ Interrupt

Spec == Init /\ [][Next]_vars

\* the same, the loop thread being scheduled whenever it can run
FairSpec == Spec /\ WF_vars(Next)

\* the daily variant from line 377 on: the boot trigger and the daily loop as
\* they run with the NTP lines 362-375 passed
InitDaily ==
    /\ variant = "daily"
    /\ pc = "a_connect"
    /\ InitCommon

DailySteps ==
    \/ A_Connect \/ A_Ensure \/ A_Boot \/ A_Poll \/ A_Reconnect
    \/ A_Daily \/ A_NoDaily \/ A_Sleep

NextDaily == DailySteps \/ CbRelease \/ Interrupt

SpecDaily == InitDaily /\ [][NextDaily]_vars

\* both of the above: every trigger policy and both callbacks
SpecAll == (Init \/ InitDaily) /\ [][Next \/ DailySteps]_vars

(* ------------------------------------------------------------------ *)
(* The readings file as read_readings_by_state sees it                  *)
(* ------------------------------------------------------------------ *)
\* str.lower() on the tags and queries of the model
Lower(str) ==
    CASE str = "Kerala" -> "kerala"
      [] str = "KERALA" -> "kerala"
      [] str = "Uttar Pradesh" -> "uttar pradesh"
      [] str = "All" -> "all"
      [] str = "ALL" -> "all"
      [] OTHER -> str

\* one line of water_readings.jsonl:
\*   json  "object" a JSON object, "scalar" valid JSON that is no object,
\*         "garbage" text json.loads rejects
\*   stk   the "state" member: "str" a string, "num" a value that is no string,
\*         "none" null or absent
\*   st    the string when stk = "str"
\*   id    the position at which the line was written
Line(json, stk, st, id) == [json |-> json, stk |-> stk, st |-> st, id |-> id]

\* the line save_reading / save_record writes for the i-th record of the log
LineOf(rec, i) ==
    Line("object", IF rec.state = "" THEN "none" ELSE "str", rec.state, i)

Lines(file) == [i \in 1..Len(file) |-> LineOf(file[i], i)]

\* `state is None or state.lower() == 'all'` is false: the else branch runs
Filtering(state) == state.given /\ Lower(state.s) # "all"

\* lines 147-148 raise AttributeError: r.get on a value that is no dict, or
\* st.lower() on a truthy value that is no string
LineRaises(l, state) ==
    Filtering(state) /\ (l.json = "scalar" \/ (l.json = "object" /\ l.stk = "num"))

\* lines 140-149 append the line to results
LineKept(l, state) ==
    /\ l.json # "garbage"
    /\ Filtering(state)
          => (l.json = "object" /\ l.stk = "str" /\ l.st # ""
              /\ Lower(l.st) = Lower(state.s))

\* the number of lines the loop of lines 139-149 gets through
Scanned(lines, state) ==
    LET bad == {i \in 1..Len(lines) : LineRaises(lines[i], state)}
    IN  IF bad = {} THEN Len(lines)
        ELSE (CHOOSE i \in bad : \A j \in bad : i <= j) - 1

\* lines 155-157: `if limit: return results[-limit:]`
LastOf(results, limit) ==
    IF ~limit.given \/ limit.n = 0 THEN results
    ELSE IF limit.n > 0
         THEN SubSeq(results, IF limit.n >= Len(results) THEN 1
                              ELSE Len(results) - limit.n + 1, Len(results))
         ELSE SubSeq(results, IF -limit.n >= Len(results) THEN Len(results) + 1
                              ELSE -limit.n + 1, Len(results))

\* results when the scan of lines 138-149 ends, by its end or by an exception
ScanResults(lines, state) ==
    LET keep(l) == LineKept(l, state)
    IN  SelectSeq(SubSeq(lines, 1, Scanned(lines, state)), keep)

\* read_readings_by_state(state, limit), lines 132-157; exists is the outcome of
\* os.path.exists(DATA_FILE), "raise" when os has no path
read_readings_by_state(lines, exists, state, limit) ==
    IF exists # "yes" THEN <<>>
    ELSE LastOf(ScanResults(lines, state), limit)

(* ------------------------------------------------------------------ *)
(* The two threads at the reading log: the callback run by the loop     *)
(* thread, step by step, and serve_forever on the HTTP thread           *)
(* ------------------------------------------------------------------ *)
\* a lock that lets a second thread in
can_acquire_held(l) == TRUE

\* lock.acquire() returns: the lock is free (lines 121, 137)
can_acquire(l) == l = "free"

\* lines 185-219 / 540-561: the callback up to `latest = rec`
T_Receive ==
    /\ pc = "t_idle" /\ delivered < MaxMsgs
    /\ \E m \in Msgs, loadOk \in BOOLEAN, mapSaveOk \in BOOLEAN :
          /\ delivered' = delivered + 1
          /\ rx' = Rx(m, FALSE)
          /\ IF m.topic # TOPIC_DATA \/ JsonFails(m) \/ GetFails(m)
             THEN UNCHANGED <<pc, latest, cb_msg, device_map>>
             ELSE IF variant = "daily"
             THEN LET file == ensure_default_device_mapping(device_map, DeviceOf(m),
                                                    DefaultState, loadOk, mapSaveOk)
                      st == get_device_state(file, DeviceOf(m), loadOk)
                      state_v == IF st = "" THEN DefaultState ELSE st
                  IN  /\ device_map' = file
                      /\ latest' = RecA(m, clock, state_v)
                      /\ cb_msg' = m
                      /\ pc' = "t_acquire"
             ELSE /\ latest' = RecB(m, clock)
                  /\ cb_msg' = m
                  /\ pc' = "t_write"
                  /\ UNCHANGED device_map
    /\ UNCHANGED <<variant, ret, clock, link, waiting_for_sensor, sensor_payload, log,
                   mainVars, pubs, timeouts, cycle, pub_failed, httpVars, callVars>>

\* save_reading, line 121: lock.acquire()
T_Acquire ==
    /\ pc = "t_acquire" /\ can_acquire(lock)
    /\ lock' = "tel"
    /\ pc' = "t_write"
    /\ UNCHANGED <<variant, ret, clock, link, cbVars, mainVars, pubs, timeouts, cycle,
                   pub_failed, os_path, hpc, hreq, hres, callVars>>

\* lines 122-123 / 513-514: open the file and write the line, or fail
T_Write ==
    /\ pc = "t_write"
    /\ \E ok \in BOOLEAN :
          IF variant = "daily"
          THEN /\ log' = save_reading(log, latest, ok)
               /\ pc' = IF ok THEN "t_release" ELSE "t_error"
               /\ UNCHANGED rx
          ELSE /\ log' = save_record(log, latest, ok)
               /\ pc' = "t_end"
               /\ rx' = [rx EXCEPT !.saved = ok]
    /\ UNCHANGED <<variant, ret, clock, link, latest, waiting_for_sensor, sensor_payload,
                   device_map, cb_msg, delivered, mainVars, pubs, timeouts, cycle,
                   pub_failed, httpVars, callVars>>

\* lines 124-125: lock.release(); return True.  release() of a lock that is not
\* held raises RuntimeError
T_Release ==
    /\ pc = "t_release"
    /\ IF lock # "free"
       THEN lock' = "free" /\ pc' = "t_end" /\ rx' = [rx EXCEPT !.saved = TRUE]
       ELSE pc' = "t_error" /\ UNCHANGED <<lock, rx>>
    /\ UNCHANGED <<variant, ret, clock, link, latest, waiting_for_sensor, sensor_payload,
                   log, device_map, cb_msg, delivered, mainVars, pubs, timeouts, cycle,
                   pub_failed, os_path, hpc, hreq, hres, callVars>>

\* lines 126-130: the handler releases the lock (an error of release() is passed
\* over) and returns False
T_Error ==
    /\ pc = "t_error"
    /\ lock' = "free"
    /\ rx' = [rx EXCEPT !.saved = FALSE]
    /\ pc' = "t_end"
    /\ UNCHANGED <<variant, ret, clock, link, latest, waiting_for_sensor, sensor_payload,
                   log, device_map, cb_msg, delivered, mainVars, pubs, timeouts, cycle,
                   pub_failed, os_path, hpc, hreq, hres, callVars>>

\* lines 222-224 / 568-570: the end of the callback
T_End ==
    /\ pc = "t_end"
    /\ sensor_payload' = payload_after(waiting_for_sensor, sensor_payload, cb_msg)
    /\ waiting_for_sensor' = waiting_after(waiting_for_sensor)
    /\ cb_msg' = NoMsg
    /\ pc' = "t_idle"
    /\ UNCHANGED <<variant, ret, clock, link, latest, log, device_map, delivered, rx,
                   mainVars, pubs, timeouts, cycle, pub_failed, httpVars, callVars>>

\* the state= values of GET /readings in the model
QueryStates == {NoArg, StateArg("all"), StateArg("kerala"), StateArg("UTTAR PRADESH")}

\* the loop-thread variables and the histories, which serve_forever leaves alone
loopVars == <<variant, pc, ret, clock, link, cbVars, mainVars, pubs, timeouts, cycle,
              pub_failed>>

\* lines 293-298 / 615-618: GET /latest builds its body from the global latest
H_Latest ==
    /\ hpc = "h_idle"
    /\ hreq' = [path |-> "/latest", state |-> NoArg, limit |-> NoArg]
    /\ hres' = <<latest>>
    /\ hpc' = "h_send"
    /\ UNCHANGED <<loopVars, lock, os_path, callVars>>

\* lines 300-309: GET /readings?state=..., read_readings_by_state(state) is called
H_Readings ==
    /\ hpc = "h_idle" /\ variant = "daily"
    /\ \E st \in QueryStates :
          hreq' = [path |-> "/readings", state |-> st, limit |-> NoArg]
    /\ hres' = <<>>
    /\ hpc' = "h_exists"
    /\ UNCHANGED <<loopVars, lock, os_path, callVars>>

\* lines 135-136: os.path.exists(DATA_FILE); AttributeError when os has no path
H_Exists ==
    /\ hpc = "h_exists"
    /\ hpc' = IF ~os_path THEN "h_error"
              ELSE IF log = <<>> THEN "h_send" ELSE "h_acquire"
    /\ UNCHANGED <<loopVars, lock, os_path, hreq, hres, callVars>>

\* line 137: lock.acquire()
H_Acquire ==
    /\ hpc = "h_acquire" /\ can_acquire(lock)
    /\ lock' = "http"
    /\ hpc' = "h_scan"
    /\ UNCHANGED <<loopVars, os_path, hreq, hres, callVars>>

\* lines 138-149: open the file and scan it; open may fail, a line may raise
H_Scan ==
    /\ hpc = "h_scan"
    /\ \E ok \in BOOLEAN :
          IF ok
          THEN /\ hres' = ScanResults(Lines(log), hreq.state)
               /\ hpc' = IF Scanned(Lines(log), hreq.state) = Len(log)
                         THEN "h_release" ELSE "h_error"
          ELSE /\ hres' = <<>>
               /\ hpc' = "h_error"
    /\ UNCHANGED <<loopVars, lock, os_path, hreq, callVars>>

\* line 150: lock.release()
H_Release ==
    /\ hpc = "h_release"
    /\ IF lock # "free" THEN lock' = "free" /\ hpc' = "h_send"
                        ELSE hpc' = "h_error" /\ UNCHANGED lock
    /\ UNCHANGED <<loopVars, os_path, hreq, hres, callVars>>

\* lines 151-154: the handler releases the lock, an error of release() passed over
H_Error ==
    /\ hpc = "h_error"
    /\ lock' = "free"
    /\ hpc' = "h_send"
    /\ UNCHANGED <<loopVars, os_path, hreq, hres, callVars>>

\* lines 155-157 and 296-298, 310-312: slice, send the body, close
H_Send ==
    /\ hpc = "h_send"
    /\ hreq' = NoReq
    /\ hres' = <<>>
    /\ hpc' = "h_idle"
    /\ UNCHANGED <<loopVars, lock, os_path, callVars>>

\* both threads running, the loop thread handling one message after the other
InitStore ==
    /\ variant \in {"daily", "interval"}
    /\ pc = "t_idle"
    /\ ret = "" /\ clock = 0 /\ link = TRUE
    /\ latest = NoRec /\ waiting_for_sensor = FALSE /\ sensor_payload = NoMsg
    /\ log = <<>>
    /\ device_map \in InitialMaps
    /\ last_trigger = 0 /\ now = 0 /\ wait_until = 0
    /\ last_daily_trigger_date = NoDate
    /\ cb_msg = NoMsg /\ pubs = <<>> /\ delivered = 0 /\ rx = NoRx
    /\ timeouts = 0 /\ cycle = NoCycle /\ pub_failed = ""
    /\ lock = "free"
    /\ os_path \in BOOLEAN
    /\ hpc = "h_idle" /\ hreq = NoReq /\ hres = <<>>
    /\ arg = <<>> /\ res = <<>>

NextStore ==
    \/ T_Receive \/ T_Acquire \/ T_Write \/ T_Release \/ T_Error \/ T_End
    \/ H_Latest \/ H_Readings \/ H_Exists \/ H_Acquire \/ H_Scan \/ H_Release
    \/ H_Error \/ H_Send

SpecStore == InitStore /\ [][NextStore]_vars

(* ------------------------------------------------------------------ *)
(* Helpers called on their own, with arguments drawn from bounded sets   *)
(* ------------------------------------------------------------------ *)
\* every variable of the loop and of the HTTP thread at rest
Quiet ==
    /\ variant = "daily"
    /\ ret = "" /\ clock = 0 /\ link = FALSE
    /\ latest = NoRec /\ waiting_for_sensor = FALSE /\ sensor_payload = NoMsg
    /\ log = <<>>
    /\ last_trigger = 0 /\ now = 0 /\ wait_until = 0
    /\ last_daily_trigger_date = NoDate
    /\ cb_msg = NoMsg /\ pubs = <<>> /\ delivered = 0 /\ rx = NoRx
    /\ timeouts = 0 /\ cycle = NoCycle /\ pub_failed = ""
    /\ lock = "free" /\ os_path = TRUE
    /\ hpc = "h_off" /\ hreq = NoReq /\ hres = <<>>

\* the variables a helper called on its own leaves alone
quietVars == <<variant, ret, clock, link, cbVars, mainVars, pubs, timeouts, cycle,
               pub_failed, httpVars>>

\* what a line of the readings file can be: records tagged by either variant's
\* callback, a torn or foreign line, JSON that is no object, a tag that is no
\* string
LineKinds ==
    {[json |-> "object", stk |-> "str", st |-> "Kerala"],
     [json |-> "object", stk |-> "str", st |-> "Uttar Pradesh"],
     [json |-> "object", stk |-> "none", st |-> ""],
     [json |-> "garbage", stk |-> "none", st |-> ""],
     [json |-> "scalar", stk |-> "none", st |-> ""],
     [json |-> "object", stk |-> "num", st |-> ""]}

\* the readings files of up to MaxLines lines
Files ==
    UNION {{[i \in 1..n |-> Line(f[i].json, f[i].stk, f[i].st, i)] :
              f \in [1..n -> LineKinds]} : n \in 0..MaxLines}

QueryArgs ==
    [lines : Files,
     state : {NoArg, StateArg("all"), StateArg("ALL"), StateArg("kerala"),
              StateArg("KERALA"), StateArg("Punjab")},
     limit : {NoArg} \cup {LimitArg(n) : n \in 0..MaxLimit}]

InitQuery ==
    /\ Quiet /\ device_map = EmptyMap
    /\ pc = "q_call"
    /\ arg \in QueryArgs
    /\ res = <<>>

\* read_readings_by_state(state, limit) on the file arg.lines
Q_Call ==
    /\ pc = "q_call"
    /\ res' = read_readings_by_state(arg.lines,
                    IF ~os_path THEN "raise" ELSE IF arg.lines = <<>> THEN "no" ELSE "yes",
                    arg.state, arg.limit)
    /\ pc' = "q_done"
    /\ UNCHANGED <<quietVars, arg>>

SpecQuery == InitQuery /\ [][Q_Call]_vars

\* the device ids and tags of the registry calls
Devices == {PrototypeDevice, DefaultDevice}
Tags == {DefaultState, "Kerala"}

\* device_map.json before the calls: any of the devices tagged or not
RegistryFiles ==
    UNION {[ds -> Tags] : ds \in SUBSET Devices}

InitRegistry ==
    /\ Quiet
    /\ device_map \in RegistryFiles
    /\ pc = "r_call"
    /\ arg \in [device : Devices, tag : Tags]
    /\ res = <<>>

\* what a call found in the file and what it gave back; before is the tag the
\* file held for the device ("" for none), out the tag get_device_info returned
Call(op, loadOk, saveOk, out) ==
    [op |-> op, loadOk |-> loadOk, saveOk |-> saveOk, out |-> out,
     before |-> IF arg.device \in DOMAIN device_map THEN device_map[arg.device] ELSE ""]

\* ensure_default_device_mapping(arg.device, arg.tag), lines 112-116
R_Ensure ==
    /\ pc = "r_call" /\ Len(res) < MaxCalls
    /\ \E loadOk \in BOOLEAN, saveOk \in BOOLEAN :
          /\ device_map' = ensure_default_device_mapping(device_map, arg.device,
                                                         arg.tag, loadOk, saveOk)
          /\ res' = Append(res, Call("ensure", loadOk, saveOk, ""))
    /\ UNCHANGED <<variant, pc, ret, clock, link, latest, waiting_for_sensor,
                   sensor_payload, log, cb_msg, delivered, rx, mainVars, pubs, timeouts,
                   cycle, pub_failed, httpVars, arg>>

\* get_device_info(arg.device).get("state"), lines 108-110
R_Get ==
    /\ pc = "r_call" /\ Len(res) < MaxCalls
    /\ \E loadOk \in BOOLEAN :
          res' = Append(res, Call("get", loadOk, TRUE,
                                  get_device_state(device_map, arg.device, loadOk)))
    /\ UNCHANGED <<quietVars, pc, arg>>

NextRegistry == R_Ensure \/ R_Get

SpecRegistry == InitRegistry /\ [][NextRegistry]_vars

\* the values handed to predict_wqi: absent, text float() rejects, nan, and
\* numbers from far below to far above the usual range
TdsInputs == {None, Str("abc"), Nan} \cup {Num(n) : n \in {-6000, 0, 100, 600, 3000, 60000}}
PhInputs == {None, Str("abc"), Nan} \cup {Num(n) : n \in {-50, 0, 4, 7, 14, 100}}
TurbInputs == {None, Str("abc"), Nan} \cup {Num(n) : n \in {-150, 0, 5, 15, 75, 1500}}

\* fn: which of the two predict_wqi is called; use_model, has_calc: what the
\* imports of lines 45-57 / 447-468 found
EstimatorArgs ==
    [fn : {"predict_wqi", "predict_wqi_b"}, use_model : BOOLEAN, has_calc : BOOLEAN,
     tds : TdsInputs, ph : PhInputs, turbidity : TurbInputs]

InitEstimator ==
    /\ Quiet /\ device_map = EmptyMap
    /\ pc = "e_call"
    /\ arg \in EstimatorArgs
    /\ res = <<>>

\* predict_wqi(arg.tds, arg.ph, arg.turbidity)
E_Call ==
    /\ pc = "e_call"
    /\ res' = IF arg.fn = "predict_wqi"
              THEN predict_wqi_tiers(arg.use_model, arg.has_calc,
                                     arg.tds, arg.ph, arg.turbidity)
              ELSE predict_wqi_b_tiers(arg.use_model, arg.has_calc,
                                       arg.tds, arg.ph, arg.turbidity)
    /\ pc' = "e_done"
    /\ UNCHANGED <<quietVars, arg>>

SpecEstimator == InitEstimator /\ [][E_Call]_vars

(* ------------------------------------------------------------------ *)
(* POST /predict (lines 314-329), one request handled on its own        *)
(* ------------------------------------------------------------------ *)
\* the members of the body's object; None stands for null and for no member
PredictFields ==
    [tds : {None, Str("abc"), Nan, Num(0), Num(600)},
     ph : {None, Str("abc"), Num(7)},
     turbidity : {None, Str("abc"), Num(0), Num(15)},
     turb : {None, Num(15)}]

NoFields == [tds |-> None, ph |-> None, turbidity |-> None, turb |-> None]

\* json: "empty" no body (payload = {}), "garbage" text json.loads rejects,
\*       "array" JSON that is no object, "object" an object with these members
PredictBodies ==
    {[json |-> j, f |-> NoFields] : j \in {"empty", "garbage", "array"}}
        \cup {[json |-> "object", f |-> f] : f \in PredictFields}

\* lines 320-328: the answer to a body; json.loads or payload.get raising gives
\* 400 with an error, everything else 200 with what predict_wqi returned
predict_response(body) ==
    IF body.json \in {"garbage", "array"}
    THEN [status |-> 400, error |-> TRUE, wqi |-> None]
    ELSE LET turb == IF Truthy(body.f.turbidity) THEN body.f.turbidity
                     ELSE body.f.turb
         IN  [status |-> 200, error |-> FALSE,
              wqi |-> predict_wqi(body.f.tds, body.f.ph, turb)]

InitPredict ==
    /\ Quiet /\ device_map = EmptyMap
    /\ pc = "p_request"
    /\ arg \in PredictBodies
    /\ res = <<>>

P_Predict ==
    /\ pc = "p_request"
    /\ res' = predict_response(arg)
    /\ pc' = "p_done"
    /\ UNCHANGED <<quietVars, arg>>

SpecPredict == InitPredict /\ [][P_Predict]_vars

(* ------------------------------------------------------------------ *)
(* The record a callback builds from one message, taken on its own      *)
(* ------------------------------------------------------------------ *)
\* what the sensor may put under each measurement key; None: the key is absent
ReadingChoices ==
    [tds_ppm : {None, Num(0), Num(600)},
     tds : {None, Num(0), Num(100)},
     tds_mg_L : {None, Num(3000)},
     turbidity_pct : {None, Num(0), Num(15)},
     turbidity : {None, Num(5)},
     turbidity_NTU : {None, Num(75)}]

\* the readings object holding the chosen keys and a ph
ReadingsOf(c) ==
    [k \in {x \in DOMAIN c : c[x] # None} |-> c[k]] @@ ("ph" :> Num(7))

InitRecord ==
    /\ Quiet /\ device_map = EmptyMap
    /\ pc = "r_build"
    /\ arg \in [fn : {"mqtt_callback", "mqtt_cb"}, c : ReadingChoices]
    /\ res = <<>>

\* lines 197-218 / 547-560: rd, the lookups and rec
C_Record ==
    /\ pc = "r_build"
    /\ LET j == Msg(TOPIC_DATA, "object", PrototypeDevice, "dict", ReadingsOf(arg.c))
       IN  res' = IF arg.fn = "mqtt_callback" THEN RecA(j, clock, DefaultState)
                  ELSE RecB(j, clock)
    /\ pc' = "r_done"
    /\ UNCHANGED <<quietVars, arg>>

SpecRecord == InitRecord /\ [][C_Record]_vars

(* ------------------------------------------------------------------ *)
(* Properties                                                           *)
(* ------------------------------------------------------------------ *)
Last(q) == q[Len(q)]

\* this step hands a message to the callback
Delivery == delivered' = delivered + 1

\* a data-topic message whose body is a JSON object
WellFormed(m) == m.topic = TOPIC_DATA /\ m.body = "object"

MeasurementKeys == {"tds_ppm", "tds", "tds_mg_L", "ph", "turbidity_pct", "turbidity",
                    "turbidity_NTU"}

\* a JSON object without a readings object, or without any measurement key
LacksFields(m) ==
    m.body = "object" /\ (m.rd = "absent" \/ DOMAIN m.readings \cap MeasurementKeys = {})

\* the wait loop of lines 677-682 is running
InWait == variant = "interval"
          /\ (pc \in {"wait", "waitsleep"} \/ (pc = "cb" /\ ret = "waitsleep"))

C2_Claim ==
    (pc = "sleep" /\ cycle.ended /\ cycle.data = 0 /\ clock = wait_until)
        => (~waiting_for_sensor /\ Len(log) = cycle.len0 /\ cycle.reported)

\* C3 as stated: while waiting_for_sensor is true no step publishes a trigger
\* command or changes the deadline.
C3_Claim ==
    [][waiting_for_sensor => (pubs' = pubs /\ wait_until' = wait_until)]_vars

\* C4 as stated: every trigger command published while IDLE, whichever policy
\* fired it, arms the coordinator with deadline = publish time + timeout.
C4_Original ==
    [][(pubs' # pubs /\ ~waiting_for_sensor)
          => (waiting_for_sensor'
              /\ wait_until' = Last(pubs').t + SENSOR_RESPONSE_TIMEOUT)]_vars

\* C4 amended: a published fixed-interval trigger arms the coordinator with
\* deadline = publish time + timeout; a published boot trigger (either variant) or
\* daily trigger leaves waiting_for_sensor and the deadline as they were.
C4_Amended ==
    [][pubs' # pubs
          => IF Last(pubs').kind = "interval"
             THEN /\ waiting_for_sensor'
                  /\ wait_until' = Last(pubs').t + SENSOR_RESPONSE_TIMEOUT
             ELSE UNCHANGED <<waiting_for_sensor, wait_until>>]_vars

\* a fixed-interval trigger was published while IDLE and the wait is armed
C4_Witness ==
    /\ pubs # <<>> /\ Last(pubs).kind = "interval" /\ ~Last(pubs).armed
    /\ pc = "wait" /\ waiting_for_sensor
    /\ wait_until = Last(pubs).t + SENSOR_RESPONSE_TIMEOUT

\* C5 as stated: no two daily triggers are published on the same local date.
C5_Claim ==
    \A i, j \in DOMAIN pubs :
        (i < j /\ pubs[i].kind = "daily" /\ pubs[j].kind = "daily")
            => LocalDate(pubs[i].t) # LocalDate(pubs[j].t)

\* C6 as stated: a fixed-interval trigger is published only when the coordinator
\* is IDLE and at least TRIGGER_INTERVAL after the previous publication.
C6_Claim ==
    [][(pubs' # pubs /\ Last(pubs').kind = "interval")
          => /\ ~waiting_for_sensor
             /\ pubs # <<>> => Last(pubs').t - Last(pubs).t >= TRIGGER_INTERVAL]_vars

C9_Claim == pc # "crashed"

\* C10: while the wait loop runs the clock has not passed the deadline, and the
\* loop always ends with main back at the end of its tick.
C10_WaitEnds ==
    /\ [](InWait => clock <= wait_until)
    /\ [](pc = "waitsleep" => clock < wait_until)
    /\ (InWait ~> pc = "sleep")

\* a wait ran to its deadline with every poll failing and main is back in its tick
C10_Witness ==
    /\ pc = "sleep" /\ cycle.ended /\ cycle.reported
    /\ clock = wait_until /\ ~link /\ cycle.data = 0

\* the positions where mqtt_connect() is called after a failed poll
ReconnectAt == {"reconnect", "a_reconnect"}

\* this step is a client.check_msg() that raised
PollFails ==
    /\ pc \in {"poll", "a_poll", "wait"}
    /\ pc' \notin {pc, "cb", "sleep"}
    /\ ~link' /\ delivered' = delivered

\* this step is a publish_trigger() that returned False
PublishFails ==
    /\ pubs' = pubs
    /\ \/ pc \in {"boot", "a_boot"}
       \/ pc = "sched" /\ pc' = "wait"
       \/ pc = "a_daily" /\ LocalMinute(clock) = DailyMinute
                         /\ daily_guard(LocalDate(clock))

\* C11 as stated: whenever a poll or a trigger publish fails, the same tick goes on
\* with a reconnection attempt, in the main loop and in the wait loop alike.
C11_Original ==
    [][(PollFails \/ PublishFails) => pc' \in ReconnectAt]_vars

\* C11 amended: a failed poll of the main loop (either variant) is followed in the
\* same tick by mqtt_connect(), whose failure lets the tick go on and which is
\* attempted again by every later tick that finds the link down; a failed poll of
\* the wait loop and a failed trigger publish are passed over without a
\* reconnection attempt, the link staying down.
C11_Amended ==
    [][/\ PollFails
            => /\ ~link'
               /\ pc' = CASE pc = "poll" -> "reconnect"
                           [] pc = "a_poll" -> "a_reconnect"
                           [] pc = "wait" -> "waitsleep"
       /\ PublishFails
            => /\ ~link'
               /\ pc' = CASE pc = "boot" -> "poll"
                           [] pc = "a_boot" -> "a_poll"
                           [] pc = "sched" -> "wait"
                           [] pc = "a_daily" -> "a_sleep"
       /\ pc = "reconnect" => pc' = "sched"
       /\ pc = "a_reconnect" => pc' = "a_daily"
       /\ (pc \in {"poll", "a_poll"} /\ ~link) => pc' \in ReconnectAt]_vars

\* the interval trigger of this tick was published, a poll of the wait loop then
\* failed, and the wait goes on with the link down
C11_Witness ==
    /\ pc = "waitsleep" /\ ~link /\ waiting_for_sensor
    /\ pubs # <<>> /\ Last(pubs).kind = "interval" /\ Last(pubs).t = now

\* this step is the scheduling step of a tick (lines 419-436, 670-676)
Scheduling == pc \in {"sched", "a_daily"}

\* this scheduling step calls publish_trigger()
Attempt == pubs' # pubs \/ pub_failed' # ""

\* C12 as stated: after a trigger publish that failed, the scheduling step of the
\* following tick makes a new publish attempt.
C12_Original ==
    [][(Scheduling /\ pub_failed # "") => Attempt]_vars

\* C12 amended: a failed publish is not retried as such.  After a failed boot,
\* fixed-interval or daily publish the following tick publishes exactly when its
\* own schedule fires: in the interval variant when TRIGGER_INTERVAL has passed
\* since last_trigger (which a failed firing sets like a published one), in the
\* daily variant when the local time of that tick is in the 06:00 minute.
C12_Amended ==
    [][(Scheduling /\ pub_failed # "")
          => (Attempt <=> IF variant = "interval"
                          THEN clock - last_trigger >= TRIGGER_INTERVAL
                          ELSE LocalMinute(clock) = DailyMinute)]_vars

\* the publish of a fixed-interval trigger failed and a later tick went by
\* without a new attempt
C12_Witness ==
    /\ variant = "interval" /\ pc = "sleep" /\ pub_failed = ""
    /\ cycle.ended /\ last_trigger > 0 /\ now > last_trigger
    /\ \A i \in DOMAIN pubs : pubs[i].t # last_trigger

\* the loop thread is between lock.acquire() and the release of save_reading, or
\* inside the unlocked write of save_record
Appending == pc \in {"t_write", "t_release", "t_error"}

\* the HTTP thread is between lock.acquire() and the release of
\* read_readings_by_state
Scanning == hpc \in {"h_scan", "h_release"} \/ (hpc = "h_error" /\ lock = "http")

\* C13: the append of the loop thread and the scan of the HTTP thread are never
\* both at the file; a thread that is outside save_reading / save_record /
\* read_readings_by_state does not hold the lock, and whoever holds the lock is on
\* its way to the release, so the lock is never left held.
C13_Mutex ==
    /\ ~(pc = "t_write" /\ hpc = "h_scan")
    /\ lock = "tel" => Appending
    /\ lock = "http" => Scanning
    /\ (pc \in {"t_idle", "t_end"} /\ hpc \in {"h_idle", "h_send"}) => lock = "free"

\* the loop thread holds the lock at the file while the HTTP thread waits for it
C13_Witness ==
    /\ variant = "daily" /\ pc = "t_write" /\ lock = "tel"
    /\ hpc = "h_acquire" /\ log # <<>>

\* this step builds the body of GET /latest
ServesLatest == hpc = "h_idle" /\ hpc' = "h_send" /\ hreq'.path = "/latest"

\* C14 as stated: GET /latest serves no_data while nothing has been committed, and
\* otherwise the last record of the log; latest changes only in a step that
\* appends the new value to the log.
C14_Claim ==
    [][/\ ServesLatest
            => \/ hres' = <<NoRec>> /\ log = <<>>
               \/ log # <<>> /\ hres' = <<Last(log)>>
       /\ latest' # latest => log' = Append(log, latest')]_vars

\* C15: a step either leaves the log as it is or appends one record at its end,
\* the earlier records staying as they were; the appended record is the one made
\* from the message that step handed to the callback, stamped with the time of
\* its arrival.
C15_AppendOnly ==
    [][\/ log' = log
       \/ /\ Delivery /\ WellFormed(rx'.msg) /\ rx'.saved
          /\ log' = Append(log, latest')
          /\ latest'.device = DeviceOf(rx'.msg)
          /\ latest'.ts = Seconds(clock)]_vars

\* two messages were recorded one after the other and stand in that order
C15_Witness ==
    /\ Len(log) = 2 /\ rx.msg = GoodMsg /\ rx.saved
    /\ log[1].device = DefaultDevice /\ log[2].device = PrototypeDevice
    /\ log[1].ts < log[2].ts

\* the well-formed records of the file whose tag equals state, case-insensitively;
\* every well-formed record when state is absent or "all" in any letter case
Matching(lines, state) ==
    LET match(l) == /\ l.json = "object"
                    /\ \/ ~state.given
                       \/ Lower(state.s) = "all"
                       \/ l.stk = "str" /\ Lower(l.st) = Lower(state.s)
    IN  SelectSeq(lines, match)

\* the last n entries of q
LastN(q, n) == SubSeq(q, IF n >= Len(q) THEN 1 ELSE Len(q) - n + 1, Len(q))

\* C16 as stated: read_readings_by_state(state, limit) returns, in append order,
\* the well-formed records that match state, malformed lines skipped, and the
\* last `limit` of them when a limit is given.
C16_Claim ==
    pc = "q_done"
        => res = IF arg.limit.given THEN LastN(Matching(arg.lines, arg.state), arg.limit.n)
                                    ELSE Matching(arg.lines, arg.state)

\* this step is a call of ensure_default_device_mapping
Ensures == Len(res') = Len(res) + 1 /\ Last(res').op = "ensure"

\* C17 as stated: a call of ensure_default_device_mapping for a device that has
\* an entry (from before, or from an earlier call) leaves the registry as it is,
\* and a call whose save went through leaves exactly one entry for the device.
C17_Claim ==
    [][Ensures
          => /\ arg.device \in DOMAIN device_map => device_map' = device_map
             /\ Last(res').saveOk => arg.device \in DOMAIN device_map']_vars

\* the i-th call is an ensure_default_device_mapping that had to save and whose
\* save failed, and the next call is get_device_info
SaveFailedThenGet(i) ==
    /\ i + 1 <= Len(res)
    /\ res[i].op = "ensure" /\ ~res[i].saveOk
    /\ res[i].before = "" \/ ~res[i].loadOk
    /\ res[i + 1].op = "get"

\* C18 as stated: after an ensure_default_device_mapping(device_id, tag) whose
\* save failed, the following get_device_info(device_id) returns the entry with
\* that tag.
C18_Original ==
    \A i \in 1..Len(res) : SaveFailedThenGet(i) => res[i + 1].out = arg.tag

\* C18 amended: a failed save does not end the call sequence, and the update is
\* lost: for a device without a persisted entry the following
\* get_device_info(device_id) returns no entry, and the file still has none.
C18_Amended ==
    \A i \in 1..Len(res) :
        (SaveFailedThenGet(i) /\ res[i].before = "")
            => (pc = "r_call" /\ res[i + 1].out = "" /\ res[i + 1].before = "")

\* the save of the default failed for an unknown device and get_device_info,
\* reading the file, found nothing
C18_Witness ==
    /\ Len(res) = 2 /\ SaveFailedThenGet(1)
    /\ res[1].loadOk /\ res[1].before = ""
    /\ res[2].loadOk /\ res[2].out = ""
    /\ arg.device \notin DOMAIN device_map

\* float() accepts the three arguments of the call
NumericArgs == IsNumeric(arg.tds) /\ IsNumeric(arg.ph) /\ IsNumeric(arg.turbidity)

\* a score between 0 and 100 (in hundredths)
InRange(w) == w.k = "num" /\ 0 <= w.v /\ w.v <= 10000

\* C19 as stated: for numeric tds, ph and turbidity predict_wqi returns a value in
\* [0,100], whichever tier the imports leave it with.
C19_Claim == (pc = "e_done" /\ NumericArgs) => InRange(res)

\* C20 as stated: for every triple, absent and non-numeric values included,
\* predict_wqi returns a number, never None.
C20_Claim == pc = "e_done" => res.k = "num"

\* the score of one tier on the arguments of the call
TierScore(w) == FloatScore(arg.tds, arg.ph, arg.turbidity, w)

\* C21: for numeric inputs the result is the linear model's clipped value when
\* coefficients are loaded; otherwise the score of compute_wqi_from_minimal when
\* it is available; the heuristic's value only when neither is.
C21_TierOrder ==
    (pc = "e_done" /\ NumericArgs) =>
        res = IF arg.use_model
              THEN TierScore(LinearModel(arg.tds.v, arg.ph.v, arg.turbidity.v))
              ELSE IF arg.has_calc
              THEN TierScore(compute_wqi_from_minimal(arg.tds, arg.ph, arg.turbidity))
              ELSE TierScore(Heuristic(arg.tds.v, arg.ph.v, arg.turbidity.v))

\* coefficients 10, 0.01, 2, -0.5 and input (100, 7, 5): 22.5 although
\* compute_wqi_from_minimal is available too
C21_Witness ==
    /\ pc = "e_done" /\ arg.use_model /\ arg.has_calc
    /\ arg.tds = Num(100) /\ arg.ph = Num(7) /\ arg.turbidity = Num(5)
    /\ res = Num(2250)

\* predict_wqi(600, 7.0, 15.0) has returned with only the heuristic tier available
HeuristicExample ==
    /\ pc = "e_done" /\ ~arg.use_model /\ ~arg.has_calc
    /\ arg.tds = Num(600) /\ arg.ph = Num(7) /\ arg.turbidity = Num(15)

\* C22 as stated: with only the heuristic tier, predict_wqi(600, 7.0, 15.0)
\* returns 37.00.
C22_Original == HeuristicExample => res = Num(3700)

\* C22 amended: with only the heuristic tier, predict_wqi(600, 7.0, 15.0)
\* returns 51.00 = 50 + (7 - 0)*2 - 5 - 8.
C22_Amended == HeuristicExample => res = Num(5100)

C22_Witness == HeuristicExample /\ arg.fn = "predict_wqi_b" /\ res.k = "num"

\* the body is no JSON object
Malformed == arg.json \in {"garbage", "array"}

\* a tds, ph or turbidity member of the body is present and no number
NonNumericField ==
    \E x \in {arg.f.tds, arg.f.ph, arg.f.turbidity} : x # None /\ ~IsNumeric(x)

\* tds, ph and turbidity are all present and numbers
ValidFields ==
    /\ arg.json = "object"
    /\ IsNumeric(arg.f.tds) /\ IsNumeric(arg.f.ph) /\ IsNumeric(arg.f.turbidity)

\* C23 as stated: POST /predict answers 400 with an error field when a field is
\* non-numeric or the body malformed, 200 with a numeric wqi when the fields are
\* valid numbers, and a 200 answer never carries a null wqi.
C23_Claim ==
    pc = "p_done" =>
        /\ (Malformed \/ NonNumericField) => (res.status = 400 /\ res.error)
        /\ ValidFields => (res.status = 200 /\ res.wqi # None)
        /\ res.status = 200 => res.wqi # None

\* the ordered alias lists of the two callbacks
TdsAliases == IF arg.fn = "mqtt_callback" THEN <<"tds_ppm", "tds", "tds_mg_L">>
              ELSE <<"tds_ppm", "tds">>
TurbAliases == IF arg.fn = "mqtt_callback"
               THEN <<"turbidity_pct", "turbidity", "turbidity_NTU">>
               ELSE <<"turbidity_pct", "turbidity">>

\* the value under the first key of the list that is present; None when none is
FirstPresent(c, keys) ==
    IF \A i \in 1..Len(keys) : c[keys[i]] = None THEN None
    ELSE c[keys[CHOOSE i \in 1..Len(keys) :
                  /\ c[keys[i]] # None
                  /\ \A h \in 1..(i - 1) : c[keys[h]] = None]]

\* C24 as stated: the value stored for a measurement is the value under the first
\* alias key present in the readings, 0 included; later aliases count only when
\* the earlier keys are absent.
C24_Claim ==
    pc = "r_done" =>
        /\ res.tds = FirstPresent(arg.c, TdsAliases)
        /\ res.turbidity = FirstPresent(arg.c, TurbAliases)

\* C25 as stated: after the boot trigger was published on local date D, no daily
\* trigger is published on date D.
C25_Claim ==
    \A i, j \in DOMAIN pubs :
        (pubs[i].kind = "boot" /\ pubs[j].kind = "daily")
            => LocalDate(pubs[i].t) # LocalDate(pubs[j].t)

\* the tag the registry file holds for a device, the default tag when it has none
TagOf(map, d) == IF d \in DOMAIN map THEN map[d] ELSE DefaultState

\* read_readings_by_state(tag) returns the i-th line of the file
ReturnedFor(file, i, tag) ==
    \E k \in DOMAIN ScanResults(Lines(file), StateArg(tag)) :
        ScanResults(Lines(file), StateArg(tag))[k] = Lines(file)[i]

\* C26 as stated: every reading the telemetry callback appends carries a
\* non-empty tag, the registry's tag for its device at the time of processing or
\* the default tag, and a query for that tag returns the reading.
C26_Claim ==
    [][log' # log =>
          LET r == Last(log')
          IN  /\ r.state # ""
              /\ r.state = TagOf(device_map, r.device)
              /\ ReturnedFor(log', Len(log'), TagOf(device_map, r.device))]_vars

\* C27 as stated: the lock is given back only by the thread that holds it; a step
\* of the HTTP thread never frees the lock the loop thread holds, nor the reverse.
C27_Claim ==
    [][/\ (lock = "tel" /\ lock' # "tel") => hpc' = hpc
       /\ (lock = "http" /\ lock' # "http") => pc' = pc]_vars

\* C28 as stated: a call of ensure_default_device_mapping(d, tag) leaves the
\* persisted entry of every other device in place with its tag, whatever the
\* outcome of loading and saving the file.
C28_Claim ==
    [][Ensures =>
          \A d \in DOMAIN device_map \ {arg.device} :
              d \in DOMAIN device_map' /\ device_map'[d] = device_map[d]]_vars

====
